---------------------------- MODULE Spec2Model ----------------------------
(***************************************************************************)
(* Model of streamlit_app.py: the ZIP -> CSV -> renamed-header pipeline    *)
(* (process_zip_file) and the page that drives it (main).                  *)
(*                                                                         *)
(* Strings are TLA+ strings, so equality is exact and case-sensitive.      *)
(* Archive entry names are sequences of one-character strings, so that     *)
(* str.lower() and str.endswith() are computed character by character.     *)
(***************************************************************************)
EXTENDS Naturals, Sequences, FiniteSets, TLC

(***************************************************************************)
(* Bounds of the explored inputs.                                          *)
(***************************************************************************)
MaxEntries == 2     \* entries per archive in the listing-oriented archives
MaxCols == 3        \* header fields in the header-oriented archives
MaxRows == 1        \* data rows in the header-oriented archives

Range(s) == {s[i] : i \in 1..Len(s)}

SeqsUpTo(S, n) == UNION {[1..k -> S] : k \in 0..n}

(***************************************************************************)
(* column_mapping, lines 52-62.                                            *)
(***************************************************************************)
\* Faulty variant: the value of 'Sent Date' is itself a key ('Sent').
column_mapping_shadowed ==
    ("Campaign Id" :> "Campaign__Campaign_Id") @@
    ("Campaign Name" :> "campaign__name") @@
    ("Entered" :> "campaign__campaign_start_date") @@
    ("Sent Date" :> "Sent") @@
    ("Published" :> "Contacted_Customers") @@
    ("Sent" :> "Msg_Sent") @@
    ("Delivered" :> "Msg_Delivered") @@
    ("Unique Opened" :> "Unique_Open_Count") @@
    ("Unique Opened %" :> "Unique_Click_Count")

\* The mapping as the code defines it.
column_mapping ==
    ("Campaign Id" :> "Campaign__Campaign_Id") @@
    ("Campaign Name" :> "campaign__name") @@
    ("Entered" :> "campaign__campaign_start_date") @@
    ("Sent Date" :> "Date__date") @@
    ("Published" :> "Contacted_Customers") @@
    ("Sent" :> "Msg_Sent") @@
    ("Delivered" :> "Msg_Delivered") @@
    ("Unique Opened" :> "Unique_Open_Count") @@
    ("Unique Opened %" :> "Unique_Click_Count")

(***************************************************************************)
(* Inputs: header labels, entry names, entry contents, archives.           *)
(***************************************************************************)
\* The nine source names, one target name, an unknown name and a name that
\* differs from a source name only in case.  Header fields are non-empty
\* and hold no dot, comma or quote.
Labels == DOMAIN column_mapping \cup {"Msg_Sent", "Foo", "sent"}

NameACsv == <<"a", ".", "c", "s", "v">>
NameBCsvMixed == <<"B", ".", "C", "s", "V">>
NameTxt == <<"n", ".", "t", "x", "t">>
NameNoDot == <<"a", "c", "s", "v">>
EntryNames == {NameACsv, NameBCsvMixed, NameTxt, NameNoDot}

\* The bytes of one entry: a delimited table (header row and data rows),
\* nothing at all, or bytes that are not text.
CsvBytes(h, n) == [kind |-> "csv", header |-> h, nrows |-> n]
EmptyBytes == [kind |-> "empty", header |-> <<>>, nrows |-> 0]
BinaryBytes == [kind |-> "binary", header |-> <<>>, nrows |-> 0]

Entry(n, c) == [name |-> n, data |-> c]

ListingContents == {CsvBytes(<<"Sent", "Foo">>, 1), CsvBytes(<<"Campaign Id">>, 0), EmptyBytes}

HeaderContents ==
    {CsvBytes(h, n) : h \in (SeqsUpTo(Labels, MaxCols) \ {<<>>}), n \in 0..MaxRows}
        \cup {BinaryBytes}

\* An uploaded byte string: a ZIP container with its entries in central
\* directory order, or bytes that are no ZIP container.
ZipOf(es) == [kind |-> "zip", entries |-> es]
JunkFile == [kind |-> "junk", entries |-> <<>>]
NoBytes == [kind |-> "nothing", entries |-> <<>>]

ListingArchives ==
    {ZipOf(es) : es \in SeqsUpTo({Entry(n, c) : n \in EntryNames, c \in ListingContents}, MaxEntries)}

HeaderArchives == {ZipOf(<<Entry(NameACsv, c)>>) : c \in HeaderContents}

Archives == {JunkFile} \cup ListingArchives \cup HeaderArchives

\* Wall-clock readings of datetime.now().strftime("%Y%m%d_%H%M%S").
TimeStamps == {"20240101_120000", "20240101_120001"}


(***************************************************************************)
(* Library operations the code calls, computed as the libraries compute    *)
(* them.                                                                   *)
(***************************************************************************)
\* str.lower(), character by character (line 35).
LowerChar(c) ==
    CASE c = "B" -> "b"
      [] c = "C" -> "c"
      [] c = "S" -> "s"
      [] c = "V" -> "v"
      [] OTHER -> c

Lower(s) == [i \in 1..Len(s) |-> LowerChar(s[i])]

\* str.endswith() (line 35).
EndsWith(s, suffix) ==
    /\ Len(s) >= Len(suffix)
    /\ SubSeq(s, Len(s) - Len(suffix) + 1, Len(s)) = suffix

\* The test of the list comprehension of line 35.
\* Faulty variant: the suffix is tested without its dot.
IsCsvName_nodot(f) == EndsWith(Lower(f), <<"c", "s", "v">>)

IsCsvName(f) == EndsWith(Lower(f), <<".", "c", "s", "v">>)

\* zip_ref.namelist() (line 32): the names in central directory order.
NameList(zip) == [i \in 1..Len(zip.entries) |-> zip.entries[i].name]

\* csv_files (line 35): the names that pass the test, in listing order.
RECURSIVE CsvFiles(_)
CsvFiles(file_list) ==
    IF file_list = <<>> THEN <<>>
    ELSE IF IsCsvName(Head(file_list))
         THEN <<Head(file_list)>> \o CsvFiles(Tail(file_list))
         ELSE CsvFiles(Tail(file_list))

\* zip_ref.read(name) (line 46) looks the member up by name; ZipFile keeps
\* one member per name in NameToInfo, the last one listed with that name.
MemberIndex(zip, name) ==
    CHOOSE i \in 1..Len(zip.entries) :
        /\ zip.entries[i].name = name
        /\ \A j \in (i + 1)..Len(zip.entries) : zip.entries[j].name # name

\* pd.read_csv (line 49) renames a repeated header field X to X.1, X.2, ...
\* skipping the names the header already holds.
RECURSIVE FreshName(_, _, _)
FreshName(col, k, taken) ==
    LET c == col \o "." \o ToString(k)
    IN  IF c \in taken THEN FreshName(col, k + 1, taken) ELSE c

RECURSIVE DedupNames(_, _)
DedupNames(done, rest) ==
    IF rest = <<>> THEN done
    ELSE LET col == Head(rest)
             new == IF col \in Range(done)
                    THEN FreshName(col, 1, Range(done) \cup Range(rest))
                    ELSE col
         IN  DedupNames(Append(done, new), Tail(rest))

\* A dataframe: its column labels and its number of rows. None is NoDf.
NoDf == [defined |-> FALSE, columns |-> <<>>, nrows |-> 0]
DataFrame(cols, n) == [defined |-> TRUE, columns |-> cols, nrows |-> n]

\* pd.read_csv(io.BytesIO(csv_content)) (line 49): the exception it raises,
\* or "" and the dataframe.
ReadCsvError(content) ==
    CASE content.kind = "empty" -> "EmptyDataError"
      [] content.kind = "binary" -> "UnicodeDecodeError"
      [] OTHER -> ""

ReadCsv(content) == DataFrame(DedupNames(<<>>, content.header), content.nrows)

(***************************************************************************)
(* Header renaming, lines 69-70.                                           *)
(***************************************************************************)
\* rename_dict (line 69): the pairs of column_mapping whose key is a column.
\* Faulty variant: the whole mapping, whether or not the key is a column.
RenameDict_all(columns) == column_mapping

RenameDict(columns) ==
    [old \in {k \in DOMAIN column_mapping : k \in Range(columns)} |-> column_mapping[old]]

\* What df.rename(columns=rename_dict) makes of one label (line 70).
\* Faulty variant: a label is matched regardless of case.
RenameLabel_anycase(rename_dict, c) ==
    LET folded == IF c = "sent" THEN "Sent" ELSE c
    IN  IF folded \in DOMAIN rename_dict THEN rename_dict[folded] ELSE c

RenameLabel(rename_dict, c) ==
    IF c \in DOMAIN rename_dict THEN rename_dict[c] ELSE c

\* df.rename(columns=rename_dict) (line 70): labels change, rows do not.
DfRename(df, rename_dict) ==
    [df EXCEPT !.columns = [i \in 1..Len(df.columns) |-> RenameLabel(rename_dict, df.columns[i])]]

(***************************************************************************)
(* Output, lines 76-80.                                                    *)
(***************************************************************************)
OutputFilename(timestamp) == "processed_" \o timestamp \o ".csv"

RECURSIVE JoinComma(_)
JoinComma(fields) ==
    IF Len(fields) = 0 THEN ""
    ELSE IF Len(fields) = 1 THEN fields[1]
    ELSE fields[1] \o "," \o JoinComma(Tail(fields))

\* df.to_csv(index=False) (line 80): the header line, then one line per row.
NoText == [written |-> FALSE, header |-> "", nlines |-> 0]
ToCsv(df) == [written |-> TRUE, header |-> JoinComma(df.columns), nlines |-> df.nrows]

(***************************************************************************)
(* State.                                                                  *)
(***************************************************************************)
VARIABLES
    uploaded_file,     \* the object st.file_uploader returns: bytes and read position
    pc,                \* where the script stands
    zip_bytes,         \* line 27
    zip_open,          \* whether zip_ref holds the archive open (line 30)
    file_list,         \* line 32
    csv_files,         \* line 35
    csv_file,          \* line 42
    csv_content,       \* line 46
    members_read,      \* the archive members whose content zip_ref.read returned
    df,                \* lines 49 and 70
    original_columns,  \* df.columns.tolist() as written at line 65
    rename_dict,       \* line 69
    output_filename,   \* line 77
    csv_string,        \* line 80
    ret,               \* how process_zip_file ended and what it returned
    exception,         \* the exception that ended the script run, "" if none
    page,              \* what the script run has put on the page
    prev               \* how the previous call on these same bytes ended

vars == <<uploaded_file, pc, zip_bytes, zip_open, file_list, csv_files, csv_file,
          csv_content, members_read, df, original_columns, rename_dict,
          output_filename, csv_string, ret, exception, page, prev>>

locals == <<zip_bytes, zip_open, file_list, csv_files, csv_file, csv_content,
            members_read, df, original_columns, rename_dict, output_filename,
            csv_string>>

NoFile == [present |-> FALSE, bytes |-> NoBytes, pos |-> 0]
NoContent == [kind |-> "none", header |-> <<>>, nrows |-> 0]
NoDict == [old \in {} |-> ""]
NoRet == [status |-> "none", df |-> NoDf, csv_string |-> NoText, filename |-> ""]
Outcome(r) == [status |-> r.status, df |-> r.df, csv_string |-> r.csv_string]

\* One element of the page: what it is and the number it shows.
El(what, n) == [el |-> what, n |-> n]
Min(a, b) == IF a < b THEN a ELSE b

Init ==
    /\ uploaded_file = NoFile
    /\ pc = "idle"
    /\ zip_bytes = NoBytes
    /\ zip_open = FALSE
    /\ file_list = <<>>
    /\ csv_files = <<>>
    /\ csv_file = <<>>
    /\ csv_content = NoContent
    /\ members_read = {}
    /\ df = NoDf
    /\ original_columns = <<>>
    /\ rename_dict = NoDict
    /\ output_filename = ""
    /\ csv_string = NoText
    /\ ret = NoRet
    /\ exception = ""
    /\ page = {}
    /\ prev = Outcome(NoRet)

(***************************************************************************)
(* The uploaded file.                                                      *)
(***************************************************************************)
\* uploaded_file.read() (line 27): the bytes from the read position on.
UploadRead(f) == IF f.pos = 0 THEN f.bytes ELSE NoBytes

\* The user picks a file (line 94).  Picking a different file later leaves
\* the script in the state this action reaches, so it is not a separate
\* action.
Upload ==
    /\ pc = "idle"
    /\ ~uploaded_file.present
    /\ \E a \in Archives : uploaded_file' = [present |-> TRUE, bytes |-> a, pos |-> 0]
    /\ UNCHANGED <<pc, locals, ret, exception, page, prev>>

\* The user picks the same file again: a new object over the same bytes.
UploadAgain ==
    /\ pc = "idle"
    /\ uploaded_file.present
    /\ uploaded_file.pos # 0
    /\ uploaded_file' = [uploaded_file EXCEPT !.pos = 0]
    /\ UNCHANGED <<pc, locals, ret, exception, page, prev>>

(***************************************************************************)
(* process_zip_file, lines 15-82.                                          *)
(***************************************************************************)
\* The handle once the with block of line 30 is left, by any path.
\* Faulty variant: leaving the block does not close the handle.
WithExit_leak(handle) == handle

WithExit(handle) == FALSE

\* The button is pressed (lines 96-103) and process_zip_file reads the
\* upload (line 27).  The script run starts from an empty page.
ClickProcess ==
    /\ pc = "idle"
    /\ uploaded_file.present
    /\ zip_bytes' = UploadRead(uploaded_file)
    /\ uploaded_file' = [uploaded_file EXCEPT !.pos = 1]
    /\ prev' = Outcome(ret)
    /\ ret' = NoRet
    /\ exception' = ""
    /\ page' = {}
    /\ zip_open' = FALSE
    /\ file_list' = <<>>
    /\ csv_files' = <<>>
    /\ csv_file' = <<>>
    /\ csv_content' = NoContent
    /\ members_read' = {}
    /\ df' = NoDf
    /\ original_columns' = <<>>
    /\ rename_dict' = NoDict
    /\ output_filename' = ""
    /\ csv_string' = NoText
    /\ pc' = "open"

\* zipfile.ZipFile(zip_bytes, 'r') (line 30), then lines 32-35.
OpenZip ==
    /\ pc = "open"
    /\ IF zip_bytes.kind # "zip"
       THEN /\ exception' = "BadZipFile"
            /\ ret' = [ret EXCEPT !.status = "raised"]
            /\ pc' = "idle"
            /\ UNCHANGED <<zip_open, file_list, csv_files>>
       ELSE /\ zip_open' = TRUE
            /\ file_list' = NameList(zip_bytes)
            /\ csv_files' = CsvFiles(NameList(zip_bytes))
            /\ pc' = "select"
            /\ UNCHANGED <<exception, ret>>
    /\ UNCHANGED <<uploaded_file, zip_bytes, csv_file, csv_content, members_read, df,
                   original_columns, rename_dict, output_filename, csv_string, page, prev>>

\* Lines 37-43.
SelectCsv ==
    /\ pc = "select"
    /\ IF csv_files = <<>>
       THEN /\ page' = page \cup {El("error: No CSV files found in the ZIP archive", 0)}
            /\ zip_open' = WithExit(zip_open)
            /\ ret' = [status |-> "returned", df |-> NoDf, csv_string |-> NoText, filename |-> ""]
            /\ pc' = "main"
            /\ UNCHANGED csv_file
       ELSE /\ csv_file' = csv_files[1]
            /\ page' = page \cup {El("info: Found CSV file", 0)}
            /\ pc' = "read"
            /\ UNCHANGED <<zip_open, ret>>
    /\ UNCHANGED <<uploaded_file, zip_bytes, file_list, csv_files, csv_content, members_read,
                   df, original_columns, rename_dict, output_filename, csv_string,
                   exception, prev>>

\* zip_ref.read(csv_file) (line 46).
ReadMember ==
    /\ pc = "read"
    /\ LET i == MemberIndex(zip_bytes, csv_file)
       IN  /\ csv_content' = zip_bytes.entries[i].data
           /\ members_read' = members_read \cup {i}
    /\ pc' = "parse"
    /\ UNCHANGED <<uploaded_file, zip_bytes, zip_open, file_list, csv_files, csv_file, df,
                   original_columns, rename_dict, output_filename, csv_string, ret,
                   exception, page, prev>>

\* pd.read_csv (line 49) and the end of the with block.
ParseCsv ==
    /\ pc = "parse"
    /\ zip_open' = WithExit(zip_open)
    /\ IF ReadCsvError(csv_content) # ""
       THEN /\ exception' = ReadCsvError(csv_content)
            /\ ret' = [ret EXCEPT !.status = "raised"]
            /\ pc' = "idle"
            /\ UNCHANGED df
       ELSE /\ df' = ReadCsv(csv_content)
            /\ pc' = "rename"
            /\ UNCHANGED <<exception, ret>>
    /\ UNCHANGED <<uploaded_file, zip_bytes, file_list, csv_files, csv_file, csv_content,
                   members_read, original_columns, rename_dict, output_filename,
                   csv_string, page, prev>>

\* Lines 65-73.
RenameColumns ==
    /\ pc = "rename"
    /\ original_columns' = df.columns
    /\ rename_dict' = RenameDict(df.columns)
    /\ df' = DfRename(df, RenameDict(df.columns))
    /\ page' = page \cup {El("Original columns", Len(df.columns)),
                          El("Renamed columns", Len(DfRename(df, RenameDict(df.columns)).columns))}
    /\ pc' = "serialize"
    /\ UNCHANGED <<uploaded_file, zip_bytes, zip_open, file_list, csv_files, csv_file,
                   csv_content, members_read, output_filename, csv_string, ret,
                   exception, prev>>

\* Lines 76-82.
Serialize ==
    /\ pc = "serialize"
    /\ \E now \in TimeStamps :
          /\ output_filename' = OutputFilename(now)
          /\ ret' = [status |-> "returned", df |-> df, csv_string |-> ToCsv(df),
                     filename |-> OutputFilename(now)]
    /\ csv_string' = ToCsv(df)
    /\ pc' = "main"
    /\ UNCHANGED <<uploaded_file, zip_bytes, zip_open, file_list, csv_files, csv_file,
                   csv_content, members_read, df, original_columns, rename_dict,
                   exception, page, prev>>

(***************************************************************************)
(* main, lines 103-124.                                                    *)
(***************************************************************************)
\* processed_df is not None (line 105).
\* Faulty variant: the result is shown without the None test.
ProcessedOk_always(r) == TRUE

ProcessedOk(r) == r.df.defined

\* Lines 105-108.
ShowPreview ==
    /\ pc = "main"
    /\ IF ProcessedOk(ret)
       THEN /\ page' = page \cup {El("Preview of Processed Data", Min(5, ret.df.nrows))}
            /\ pc' = "download"
       ELSE /\ pc' = "idle"
            /\ UNCHANGED page
    /\ UNCHANGED <<uploaded_file, locals, ret, exception, prev>>

\* Lines 111-112.
ShowDownload ==
    /\ pc = "download"
    /\ page' = page \cup {El("Download Processed CSV", 0)}
    /\ pc' = "stats"
    /\ UNCHANGED <<uploaded_file, locals, ret, exception, prev>>

\* Lines 115-117.
ShowStats ==
    /\ pc = "stats"
    /\ page' = page \cup {El("Total rows", ret.df.nrows),
                          El("Total columns", Len(ret.df.columns))}
    /\ pc' = "metrics"
    /\ UNCHANGED <<uploaded_file, locals, ret, exception, prev>>

\* Lines 120-124.  main has no variable rename_dict (it is local to
\* process_zip_file, and the module defines none), so evaluating the
\* f-string of line 124 raises NameError before st.metric is called.
ShowMetrics ==
    /\ pc = "metrics"
    /\ page' = page \cup {El("Rows Processed", ret.df.nrows)}
    /\ exception' = "NameError"
    /\ pc' = "idle"
    /\ UNCHANGED <<uploaded_file, locals, ret, prev>>

Next ==
    \/ Upload
    \/ UploadAgain
    \/ ClickProcess
    \/ OpenZip
    \/ SelectCsv
    \/ ReadMember
    \/ ParseCsv
    \/ RenameColumns
    \/ Serialize
    \/ ShowPreview
    \/ ShowDownload
    \/ ShowStats
    \/ ShowMetrics

Spec == Init /\ [][Next]_vars

(***************************************************************************)
(* Properties.                                                             *)
(***************************************************************************)
\* Lines 65-70 have run in the current call: the header has been rewritten.
Renamed == original_columns # <<>>

\* process_zip_file has returned a table (line 82).
Succeeded == ret.status = "returned" /\ ret.df.defined

\* The script run that called process_zip_file has ended.
RunEnded == pc = "idle" /\ ret.status # "none"

\* C1: header rewriting is a position-wise exact-match map.  The rewritten
\* header is as long as the parsed one; at each position it holds the
\* column_mapping value of the parsed label when that label is exactly one
\* of the nine keys, and the parsed label otherwise; "Sent", "Sent Date",
\* "Unique Opened" and "Unique Opened %" each go to their own target, and a
\* label that differs from a key only in case stays.
C1_PositionwiseRename ==
    Renamed =>
        /\ Len(df.columns) = Len(original_columns)
        /\ df.nrows = csv_content.nrows
        /\ \A i \in 1..Len(original_columns) :
              LET h == original_columns[i]
              IN  /\ h \in DOMAIN column_mapping => df.columns[i] = column_mapping[h]
                  /\ h \notin DOMAIN column_mapping => df.columns[i] = h
                  /\ h = "Sent" => df.columns[i] = "Msg_Sent"
                  /\ h = "Sent Date" => df.columns[i] = "Date__date"
                  /\ h = "Unique Opened" => df.columns[i] = "Unique_Open_Count"
                  /\ h = "Unique Opened %" => df.columns[i] = "Unique_Click_Count"
                  /\ h = "sent" => df.columns[i] = "sent"

C1_Witness ==
    /\ Renamed
    /\ original_columns = <<"Sent Date", "sent", "Sent">>
    /\ df.columns = <<"Date__date", "sent", "Msg_Sent">>

\* C2: when the archive lists at least one name ending in ".csv" (in any
\* case), the only member whose content is read is the first such entry of
\* the listing, and the table is built from that entry's content.
C2_ReadsFirstCsvEntryOnly ==
    LET es == zip_bytes.entries
        csv == {i \in 1..Len(es) :
                  /\ Len(es[i].name) >= 4
                  /\ Lower(SubSeq(es[i].name, Len(es[i].name) - 3, Len(es[i].name)))
                        = <<".", "c", "s", "v">>}
    IN  (csv # {} /\ pc \notin {"open", "select", "read"}) =>
            LET first == CHOOSE i \in csv : \A j \in csv : i <= j
            IN  /\ members_read = {first}
                /\ csv_content = es[first].data
                /\ Renamed => original_columns = ReadCsv(es[first].data).columns

\* C3: once a script run whose processing succeeded has ended, the page
\* holds the row count, the column count and the renamed-header count.
C3_AllThreeMetricsShown ==
    (RunEnded /\ Succeeded) =>
        /\ El("Total rows", ret.df.nrows) \in page
        /\ El("Total columns", Len(ret.df.columns)) \in page
        /\ \E e \in page : e.el = "Columns Renamed"

\* C4: the renamed count, len(rename_dict), is the size of the intersection
\* of the set of parsed headers with the set of column_mapping keys, and is
\* the number of positions whose label differs between the parsed and the
\* rewritten header; ["Campaign Id","Foo","Sent"] gives 2 and
\* ["Campaign__Campaign_Id","Foo","Msg_Sent"].
C4_RenamedCount ==
    Renamed =>
        /\ Cardinality(DOMAIN rename_dict)
              = Cardinality(Range(original_columns) \cap DOMAIN column_mapping)
        /\ Cardinality(DOMAIN rename_dict)
              = Cardinality({i \in 1..Len(original_columns) : original_columns[i] # df.columns[i]})
        /\ original_columns = <<"Campaign Id", "Foo", "Sent">> =>
              /\ Cardinality(DOMAIN rename_dict) = 2
              /\ df.columns = <<"Campaign__Campaign_Id", "Foo", "Msg_Sent">>

C4_Witness ==
    /\ Renamed
    /\ original_columns = <<"Campaign Id", "Foo", "Sent">>
    /\ Cardinality(DOMAIN rename_dict) = 2

\* C5: renaming the rewritten header again changes nothing and renames no
\* header, because no column_mapping value is a column_mapping key.
C5_RenameIdempotent ==
    Renamed =>
        /\ DfRename(df, RenameDict(df.columns)) = df
        /\ DOMAIN RenameDict(df.columns) = {}
        /\ \A k \in DOMAIN column_mapping : column_mapping[k] \notin DOMAIN column_mapping

C5_Witness ==
    /\ Renamed
    /\ original_columns = <<"Sent Date", "Sent", "Msg_Sent">>
    /\ Cardinality(DOMAIN rename_dict) = 2

\* C6: process_zip_file hands main all three of table, text and filename or
\* none of them, and a run whose processing failed (an exception, or the
\* (None, None, None) return) shows no preview, download link or statistics.
C6_AllOrNothing ==
    /\ \/ ret.df.defined /\ ret.csv_string.written /\ ret.filename # ""
       \/ ~ret.df.defined /\ ~ret.csv_string.written /\ ret.filename = ""
    /\ ret.status = "raised" => ~ret.df.defined /\ exception # ""
    /\ (ret.status # "none" /\ ~Succeeded) =>
          \A e \in page : e.el \notin {"Preview of Processed Data", "Download Processed CSV",
                                       "Total rows", "Total columns", "Rows Processed"}
    /\ Succeeded => /\ ret.df = df
                    /\ ret.csv_string = ToCsv(df)
                    /\ ret.filename \in {OutputFilename(t) : t \in TimeStamps}

C6_Witness ==
    /\ RunEnded
    /\ ret.status = "returned"
    /\ ~ret.df.defined
    /\ zip_bytes.kind = "zip"
    /\ Len(zip_bytes.entries) > 0

\* C7: for an archive that lists no name ending in ".csv" (in any case),
\* once past line 37 the error message is on the page, no member content
\* has been read, no entry is selected, and process_zip_file has returned
\* no table, no text and no filename.
C7_NoCsvOutcome ==
    LET es == zip_bytes.entries
        csv == {i \in 1..Len(es) :
                  /\ Len(es[i].name) >= 4
                  /\ Lower(SubSeq(es[i].name, Len(es[i].name) - 3, Len(es[i].name)))
                        = <<".", "c", "s", "v">>}
    IN  (zip_bytes.kind = "zip" /\ csv = {} /\ pc \notin {"open", "select"}) =>
            /\ El("error: No CSV files found in the ZIP archive", 0) \in page
            /\ members_read = {}
            /\ csv_file = <<>>
            /\ csv_content = NoContent
            /\ df = NoDf
            /\ ret = [status |-> "returned", df |-> NoDf, csv_string |-> NoText, filename |-> ""]
            /\ exception = ""

C7_Witness ==
    /\ RunEnded
    /\ zip_bytes.kind = "zip"
    /\ Len(zip_bytes.entries) = 2
    /\ zip_bytes.entries[1].name = NameNoDot
    /\ zip_bytes.entries[2].name = NameTxt
    /\ El("error: No CSV files found in the ZIP archive", 0) \in page

\* C8: two calls given the same uploaded archive end the same way, with the
\* same table and the same text.
C8_SameBytesSameResult ==
    (ret.status # "none" /\ prev.status # "none") =>
        /\ ret.df = prev.df
        /\ ret.csv_string = prev.csv_string

\* C9: the table a successful call returns has pairwise-distinct column
\* names.
C9_DistinctColumns ==
    Succeeded =>
        \A i, j \in 1..Len(ret.df.columns) :
            i # j => ret.df.columns[i] # ret.df.columns[j]

\* C10: the archive handle is held open only inside the with block of lines
\* 30-49: it is closed when header renaming starts, and whenever
\* process_zip_file has returned or raised.
C10_HandleReleased ==
    /\ zip_open => pc \in {"select", "read", "parse"}
    /\ pc \in {"rename", "serialize"} => ~zip_open
    /\ ret.status # "none" => ~zip_open

C10_Witness ==
    /\ ret.status = "raised"
    /\ exception = "EmptyDataError"
    /\ members_read # {}
    /\ ~zip_open

=============================================================================
